---- MODULE Spec2Model ----
(***************************************************************************)
(* Model of src/tools/preprocess_data_enc_dec_lm.py: the stochastic        *)
(* document chunker (Encoder.encode) run by a pool of workers, and the     *)
(* coordinating loop of main() that writes the chunk pairs to two indexed  *)
(* dataset builders.                                                       *)
(***************************************************************************)
EXTENDS Integers, Sequences, FiniteSets, TLC

(***************************************************************************)
(* Bounds of the model.                                                    *)
(***************************************************************************)
\* longest tokenized document (ids before the sentinel) of the chunker runs
MaxDocLen == 512
\* longest input file, in lines, of the pipeline runs
MaxLines == 11
\* --workers
NumWorkers == 2
\* --log_interval
log_interval == 2

(***************************************************************************)
(* Program constants.                                                      *)
(***************************************************************************)
\* chunksize argument of pool.imap_unordered
ChunkSize == 10
\* Encoder.tokenizer.eod_id; the ids of the text are all positive
eod_id == 0

Workers == 1..NumWorkers

Min(a, b) == IF a < b THEN a ELSE b
Max(a, b) == IF a > b THEN a ELSE b

(***************************************************************************)
(* Python slices s[:n] and s[n:], n of either sign, and s[a:b], 0 <= a.    *)
(***************************************************************************)
SliceTo(s, n) ==
    IF n >= 0 THEN SubSeq(s, 1, Min(n, Len(s)))
    ELSE SubSeq(s, 1, Max(Len(s) + n, 0))

SliceFrom(s, n) ==
    IF n >= 0 THEN SubSeq(s, Min(n, Len(s)) + 1, Len(s))
    ELSE SubSeq(s, Max(Len(s) + n, 0) + 1, Len(s))

Slice(s, a, b) == SubSeq(s, Min(a, Len(s)) + 1, Min(Max(a, b), Len(s)))

(***************************************************************************)
(* Python's optional values: None, or a value.                             *)
(***************************************************************************)
None == [none |-> TRUE, val |-> <<>>]
Some(x) == [none |-> FALSE, val |-> x]

(***************************************************************************)
(* Encoder.encode, piece by piece.                                         *)
(***************************************************************************)
\* int(random.random() * 100)
RawDraws == 0..99

\* the segment size chosen from a raw draw
SegSize(r) ==
    IF r % 8 <= 3 THEN 32
    ELSE IF r % 8 <= 5 THEN 64
    ELSE IF r % 8 = 6 THEN 128
    ELSE IF r % 8 = 7 THEN 256
    ELSE r

\* faulty variant: the limit itself is taken as too long
OversizedMut(line) == line.len >= 5000000

\* len(line) > 5000000
Oversized(line) == line.len > 5000000

\* faulty variant: the sentinel is counted
TooShortMut(ids) == Len(ids) + 1 < 12

\* len(doc_ids) < 12, before the sentinel is appended
TooShort(ids) == Len(ids) < 12

\* faulty variant: the window is one id short
PieceMut(ids, off, t) == Slice(ids, off, off + t - 1 + 254)

\* piece = doc_ids[i:i+tmp-1+255]
Piece(ids, off, t) == Slice(ids, off, off + t - 1 + 255)

\* faulty variant: the loop stops on a piece of fewer than 64 ids
StopsAtMut(piece) == Len(piece) < 64

\* len(piece) < 12: break
StopsAt(piece) == Len(piece) < 12

\* faulty variant: the tentative split is kept whatever the length of the label
SplitMut(piece, t) ==
    [context |-> SliceTo(piece, t - 1), label |-> SliceFrom(piece, t - 1)]

\* the tentative split and its override by the length of the piece
Split(piece, t) ==
    LET context == SliceTo(piece, t - 1)
        label == SliceFrom(piece, t - 1)
        length == Len(piece)
    IN  IF Len(label) < 63 THEN
            IF length < 16 THEN
                [context |-> SliceTo(piece, -7), label |-> SliceFrom(piece, -7)]
            ELSE IF length < 24 THEN
                [context |-> SliceTo(piece, 7), label |-> SliceFrom(piece, 7)]
            ELSE IF length < 32 THEN
                [context |-> SliceTo(piece, -15), label |-> SliceFrom(piece, -15)]
            ELSE IF length < 48 THEN
                [context |-> SliceTo(piece, 15), label |-> SliceFrom(piece, 15)]
            ELSE IF length < 64 THEN
                [context |-> SliceTo(piece, -31), label |-> SliceFrom(piece, -31)]
            ELSE IF length < 96 THEN
                [context |-> SliceTo(piece, 31), label |-> SliceFrom(piece, 31)]
            ELSE IF length < 128 THEN
                [context |-> SliceTo(piece, -63), label |-> SliceFrom(piece, -63)]
            ELSE IF length < 192 THEN
                [context |-> SliceTo(piece, 63), label |-> SliceFrom(piece, 63)]
            ELSE IF length < 256 THEN
                [context |-> SliceTo(piece, -127), label |-> SliceFrom(piece, -127)]
            ELSE IF length < 384 THEN
                [context |-> SliceTo(piece, 127), label |-> SliceFrom(piece, 127)]
            ELSE IF length < 512 THEN
                [context |-> SliceTo(piece, -255), label |-> SliceFrom(piece, -255)]
            ELSE [context |-> context, label |-> label]
        ELSE [context |-> context, label |-> label]

\* the two assertions before the append
LengthOk(x) == Len(x) > 4 /\ Len(x) < 256
AssertsHold(pair) == LengthOk(pair.context) /\ LengthOk(pair.label)

\* faulty variant: the offset moves past the whole window
AdvanceWindowMut(off, t) == off + (t - 1) + 255

\* faulty variant: the offset is left where it was
AdvanceMut(off, t) == off

\* i += (tmp - 1)
Advance(off, t) == off + (t - 1)

\* the results of encode: (None, None, 0) and (contexts, labels, len(line))
NoOutput == [pair_ids |-> None, label_ids |-> None, bytes_processed |-> 0]
Output(cs, ls, line) ==
    [pair_ids |-> Some(cs), label_ids |-> Some(ls), bytes_processed |-> line.len]


(***************************************************************************)
(* The indexed dataset builder (data/indexed_dataset.py, imported by the   *)
(* tool): the records added so far, the document-boundary array and the    *)
(* number of times the builder was finalized.                              *)
(***************************************************************************)
make_builder == [items |-> <<>>, doc_idx |-> <<>>, finalized |-> 0]
\* the elements are stored as dtype np.uint16
add_item(b, x) == [b EXCEPT !.items = Append(@, [j \in 1..Len(x) |-> x[j] % 65536])]
end_document(b) == [b EXCEPT !.doc_idx = Append(@, Len(b.items))]
finalize(b) == [b EXCEPT !.finalized = @ + 1]

(***************************************************************************)
(* Input lines.  A line is its length in characters, the ids the tokenizer *)
(* gives for it, and whether the tokenizer raises on it.  The ids of line  *)
(* p are 100 * p + 1, 100 * p + 2, ...: no two tokens of a file are equal. *)
(***************************************************************************)
Ids(p, n) == [j \in 1..n |-> 100 * p + j]
Line(chars, ids, bad) == [len |-> chars, ids |-> ids, raises |-> bad]

\* the single-line files of the chunker runs: the lengths around every
\* threshold of encode, and 39 (doc_ids of 40 with the sentinel), up to MaxDocLen
Thresholds == {0, 11, 12, 15, 16, 23, 24, 31, 32, 39, 42, 43, 47, 48, 63, 64, 93, 94,
               95, 96, 127, 128, 191, 192, 255, 256, 286, 317, 318, 383, 384,
               509, 510, 511, 512}
DocLens == {n \in Thresholds : n <= MaxDocLen} \cup {MaxDocLen}
LongIds(n) == [j \in 1..n |-> j]
EncodeFiles == {<<Line(n + 10, LongIds(n), FALSE)>> : n \in DocLens}

\* the files of the pipeline runs: n lines of the kinds below in rotation,
\* starting from kind s; line b, when there is one, is one the tokenizer raises
\* on, and so is the oversized line, were the tokenizer called on it
Kinds == <<"min", "short", "two", "huge", "limit">>
KindLine(p, kind) ==
    CASE kind = "short" -> Line(30, Ids(p, 11), FALSE)
      [] kind = "min" -> Line(40, Ids(p, 12), FALSE)
      [] kind = "two" -> Line(100, Ids(p, 45), FALSE)
      [] kind = "huge" -> Line(5000001, Ids(p, 12), TRUE)
      [] kind = "limit" -> Line(5000000, Ids(p, 14), FALSE)
      [] kind = "bad" -> Line(50, <<>>, TRUE)
File(s, n, b) ==
    [p \in 1..n |-> KindLine(p, IF p = b THEN "bad"
                                ELSE Kinds[((s + p) % Len(Kinds)) + 1])]
Files == {File(s, n, b) : s \in 1..Len(Kinds), n \in 0..MaxLines, b \in {0, 1, 5, MaxLines}}

(***************************************************************************)
(* State.                                                                  *)
(***************************************************************************)
VARIABLES
    fin,            \* the input file: its lines
    \* each worker process
    wpc,            \* where the worker is
    tokenizer,      \* how many times Encoder.tokenizer was constructed
    task,           \* the batch of lines the worker maps encode over (0: none)
    k,              \* the line of the batch encode is called on
    outs,           \* the results of the lines of the batch before k
    doc_ids, i, tmp, contexts, labels,   \* the locals of encode
    \* the pool
    dispatched,     \* batches handed to workers
    outq,           \* results of finished batches, in order of completion
    \* main
    mpc,            \* where main is
    main_i,         \* i of the for loop
    pending,        \* results of the current batch not yet yielded
    pair_ids, label_ids,  \* of the current result
    z,              \* position of the zip
    total_bytes_processed,
    builder_context, builder_target,
    pool_closed,
    reports,        \* progress reports printed
    taken           \* history: the chunk pairs of the results main took

wvars == <<wpc, tokenizer, task, k, outs, doc_ids, i, tmp, contexts, labels>>
pvars == <<dispatched, outq>>
mvars == <<mpc, main_i, pending, pair_ids, label_ids, z, total_bytes_processed,
           builder_context, builder_target, pool_closed, reports, taken>>
vars == <<fin, wvars, pvars, mvars>>

\* pool.imap_unordered(encoder.encode, fin, 10): the batches of the file
NumChunks == (Len(fin) + ChunkSize - 1) \div ChunkSize
Chunk(c) == SubSeq(fin, (c - 1) * ChunkSize + 1, Min(c * ChunkSize, Len(fin)))

InitWith(files) ==
    /\ fin \in files
    /\ wpc = [w \in Workers |-> "start"]
    /\ tokenizer = [w \in Workers |-> 0]
    /\ task = [w \in Workers |-> 0]
    /\ k = [w \in Workers |-> 0]
    /\ outs = [w \in Workers |-> <<>>]
    /\ doc_ids = [w \in Workers |-> <<>>]
    /\ i = [w \in Workers |-> 0]
    /\ tmp = [w \in Workers |-> 0]
    /\ contexts = [w \in Workers |-> <<>>]
    /\ labels = [w \in Workers |-> <<>>]
    /\ dispatched = 0
    /\ outq = <<>>
    /\ mpc = "loop"
    /\ main_i = 0
    /\ pending = <<>>
    /\ pair_ids = None
    /\ label_ids = None
    /\ z = 0
    /\ total_bytes_processed = 0
    /\ builder_context = make_builder
    /\ builder_target = make_builder
    /\ pool_closed = FALSE
    /\ reports = 0
    /\ taken = <<>>

Init == InitWith(Files)

(***************************************************************************)
(* A worker process.                                                       *)
(***************************************************************************)
\* faulty variant: the worker starts without running the initializer
initializerMut(w) ==
    /\ wpc[w] = "start"
    /\ wpc' = [wpc EXCEPT ![w] = "idle"]
    /\ UNCHANGED <<fin, tokenizer, task, k, outs, doc_ids, i, tmp, contexts, labels,
                   pvars, mvars>>

\* Encoder.initializer
initializer(w) ==
    /\ wpc[w] = "start"
    /\ tokenizer' = [tokenizer EXCEPT ![w] = @ + 1]
    /\ wpc' = [wpc EXCEPT ![w] = "idle"]
    /\ UNCHANGED <<fin, task, k, outs, doc_ids, i, tmp, contexts, labels, pvars, mvars>>

\* the worker takes the next batch of lines
GetTask(w) ==
    /\ wpc[w] = "idle"
    /\ dispatched < NumChunks
    /\ dispatched' = dispatched + 1
    /\ task' = [task EXCEPT ![w] = dispatched + 1]
    /\ k' = [k EXCEPT ![w] = 1]
    /\ outs' = [outs EXCEPT ![w] = <<>>]
    /\ wpc' = [wpc EXCEPT ![w] = "encode"]
    /\ UNCHANGED <<fin, tokenizer, doc_ids, i, tmp, contexts, labels, outq, mvars>>

CurrentLine(w) == Chunk(task[w])[k[w]]

\* the locals of encode go out of scope
Forget(w) ==
    /\ doc_ids' = [doc_ids EXCEPT ![w] = <<>>]
    /\ i' = [i EXCEPT ![w] = 0]
    /\ tmp' = [tmp EXCEPT ![w] = 0]
    /\ contexts' = [contexts EXCEPT ![w] = <<>>]
    /\ labels' = [labels EXCEPT ![w] = <<>>]

\* encode returns res: the batch goes on with its next line, or is finished
\* and its results are sent to main
Return(w, res) ==
    /\ Forget(w)
    /\ IF k[w] < Len(Chunk(task[w]))
       THEN /\ outs' = [outs EXCEPT ![w] = Append(@, res)]
            /\ k' = [k EXCEPT ![w] = @ + 1]
            /\ wpc' = [wpc EXCEPT ![w] = "encode"]
            /\ UNCHANGED <<task, outq>>
       ELSE /\ outq' = Append(outq, [batch |-> task[w], success |-> TRUE,
                                  value |-> Append(outs[w], res)])
            /\ outs' = [outs EXCEPT ![w] = <<>>]
            /\ k' = [k EXCEPT ![w] = 0]
            /\ task' = [task EXCEPT ![w] = 0]
            /\ wpc' = [wpc EXCEPT ![w] = "idle"]

\* encode raises: the batch fails, and the exception is sent to main
Raise(w) ==
    /\ Forget(w)
    /\ outq' = Append(outq, [batch |-> task[w], success |-> FALSE, value |-> <<>>])
    /\ outs' = [outs EXCEPT ![w] = <<>>]
    /\ k' = [k EXCEPT ![w] = 0]
    /\ task' = [task EXCEPT ![w] = 0]
    /\ wpc' = [wpc EXCEPT ![w] = "idle"]

\* encode, up to the loop
EncodeBegin(w) ==
    /\ wpc[w] = "encode"
    /\ LET line == CurrentLine(w)
       IN  IF Oversized(line) THEN Return(w, NoOutput)
           ELSE IF line.raises THEN Raise(w)
           ELSE IF TooShort(line.ids) THEN Return(w, NoOutput)
           ELSE /\ doc_ids' = [doc_ids EXCEPT ![w] = Append(line.ids, eod_id)]
                /\ contexts' = [contexts EXCEPT ![w] = <<>>]
                /\ labels' = [labels EXCEPT ![w] = <<>>]
                /\ i' = [i EXCEPT ![w] = 0]
                /\ wpc' = [wpc EXCEPT ![w] = "while"]
                /\ UNCHANGED <<tmp, task, k, outs, outq>>
    /\ UNCHANGED <<fin, tokenizer, dispatched, mvars>>

\* one iteration of the loop of encode, and the test of the next
Iterate(w) ==
    /\ wpc[w] = "while"
    /\ i[w] < Len(doc_ids[w])
    /\ \E t \in {SegSize(r) : r \in RawDraws} :
         LET piece == Piece(doc_ids[w], i[w], t)
             pair == Split(piece, t)
         IN  IF StopsAt(piece)
             THEN /\ tmp' = [tmp EXCEPT ![w] = t]
                  /\ wpc' = [wpc EXCEPT ![w] = "return"]
                  /\ UNCHANGED <<doc_ids, i, contexts, labels, task, k, outs, outq>>
             ELSE IF ~AssertsHold(pair) THEN Raise(w)
             ELSE /\ tmp' = [tmp EXCEPT ![w] = t]
                  /\ contexts' = [contexts EXCEPT ![w] = Append(@, pair.context)]
                  /\ labels' = [labels EXCEPT ![w] = Append(@, pair.label)]
                  /\ i' = [i EXCEPT ![w] = Advance(@, t)]
                  /\ wpc' = [wpc EXCEPT ![w] =
                               IF Advance(i[w], t) < Len(doc_ids[w])
                               THEN "while" ELSE "return"]
                  /\ UNCHANGED <<doc_ids, task, k, outs, outq>>
    /\ UNCHANGED <<fin, tokenizer, dispatched, mvars>>

\* return contexts, labels, len(line)
EncodeReturn(w) ==
    /\ wpc[w] = "return"
    /\ Return(w, Output(contexts[w], labels[w], CurrentLine(w)))
    /\ UNCHANGED <<fin, tokenizer, dispatched, mvars>>

Worker(w) ==
    \/ initializer(w)
    \/ GetTask(w)
    \/ EncodeBegin(w)
    \/ Iterate(w)
    \/ EncodeReturn(w)


(***************************************************************************)
(* main: the loop over the results, the finalization and the shutdown.     *)
(***************************************************************************)
\* pair_ids is None or label_ids is None
Rejected(res) == res.pair_ids.none \/ res.label_ids.none

\* zip(pair_ids, label_ids)
Zip(a, b) == [j \in 1..Min(Len(a), Len(b)) |-> [context |-> a[j], label |-> b[j]]]

\* i % args.log_interval == 0
LogDue(n) == n % log_interval = 0

\* the result stream is exhausted: every batch was handed out, is finished,
\* and its results were yielded
Drained ==
    /\ dispatched = NumChunks
    /\ \A w \in Workers : task[w] = 0
    /\ outq = <<>>
    /\ pending = <<>>

\* the for statement yields the next result; a rejected one is skipped
Take ==
    /\ mpc = "loop"
    /\ pending # <<>> \/ (outq # <<>> /\ Head(outq).success)
    /\ LET fresh == pending = <<>>
           items == IF fresh THEN Head(outq).value ELSE pending
           res == Head(items)
       IN  /\ main_i' = main_i + 1
           /\ pending' = Tail(items)
           /\ outq' = IF fresh THEN Tail(outq) ELSE outq
           /\ pair_ids' = res.pair_ids
           /\ label_ids' = res.label_ids
           /\ IF Rejected(res)
              THEN /\ mpc' = "loop"
                   /\ UNCHANGED <<total_bytes_processed, z, taken>>
              ELSE /\ total_bytes_processed' = total_bytes_processed + res.bytes_processed
                   /\ taken' = taken \o Zip(res.pair_ids.val, res.label_ids.val)
                   /\ IF Zip(res.pair_ids.val, res.label_ids.val) # <<>>
                      THEN z' = 1 /\ mpc' = "add_context"
                      ELSE z' = 0 /\ mpc' = "log"
    /\ UNCHANGED <<fin, wvars, dispatched, builder_context, builder_target,
                   pool_closed, reports>>

\* faulty variant: the failed batch is dropped and the loop goes on
MainRaiseMut ==
    /\ mpc = "loop"
    /\ pending = <<>>
    /\ outq # <<>> /\ ~Head(outq).success
    /\ outq' = Tail(outq)
    /\ UNCHANGED <<fin, wvars, dispatched, mvars>>

\* the for statement re-raises the exception of a failed batch: main ends
MainRaise ==
    /\ mpc = "loop"
    /\ pending = <<>>
    /\ outq # <<>> /\ ~Head(outq).success
    /\ outq' = Tail(outq)
    /\ mpc' = "aborted"
    /\ UNCHANGED <<fin, wvars, dispatched, main_i, pending, pair_ids, label_ids, z,
                   total_bytes_processed, builder_context, builder_target,
                   pool_closed, reports, taken>>

\* faulty variant: the contexts of a result are all written before its labels
AddContextMut ==
    /\ mpc = "add_context"
    /\ builder_context' = add_item(builder_context, pair_ids.val[z])
    /\ IF z < Len(Zip(pair_ids.val, label_ids.val))
       THEN z' = z + 1 /\ mpc' = "add_context"
       ELSE z' = 1 /\ mpc' = "add_target"
    /\ UNCHANGED <<fin, wvars, pvars, main_i, pending, pair_ids, label_ids,
                   total_bytes_processed, builder_target, pool_closed, reports, taken>>

\* builder_context.add_item(torch.IntTensor(pids)); the ids are within 32 bits,
\* which the tensor keeps as they are
AddContext ==
    /\ mpc = "add_context"
    /\ builder_context' = add_item(builder_context, pair_ids.val[z])
    /\ mpc' = "add_target"
    /\ UNCHANGED <<fin, wvars, pvars, main_i, pending, pair_ids, label_ids, z,
                   total_bytes_processed, builder_target, pool_closed, reports, taken>>

\* faulty variant: the label written is always the first one of the result
AddTargetMut ==
    /\ mpc = "add_target"
    /\ builder_target' = add_item(builder_target, label_ids.val[1])
    /\ IF z < Len(Zip(pair_ids.val, label_ids.val))
       THEN z' = z + 1 /\ mpc' = "add_context"
       ELSE z' = 0 /\ mpc' = "log"
    /\ UNCHANGED <<fin, wvars, pvars, main_i, pending, pair_ids, label_ids,
                   total_bytes_processed, builder_context, pool_closed, reports, taken>>

\* builder_target.add_item(torch.IntTensor(lids)), and the next pair of the zip
AddTarget ==
    /\ mpc = "add_target"
    /\ builder_target' = add_item(builder_target, label_ids.val[z])
    /\ IF z < Len(Zip(pair_ids.val, label_ids.val))
       THEN z' = z + 1 /\ mpc' = "add_context"
       ELSE z' = 0 /\ mpc' = "log"
    /\ UNCHANGED <<fin, wvars, pvars, main_i, pending, pair_ids, label_ids,
                   total_bytes_processed, builder_context, pool_closed, reports, taken>>

\* the progress report
Log ==
    /\ mpc = "log"
    /\ reports' = IF LogDue(main_i) THEN reports + 1 ELSE reports
    /\ mpc' = "loop"
    /\ UNCHANGED <<fin, wvars, pvars, main_i, pending, pair_ids, label_ids, z,
                   total_bytes_processed, builder_context, builder_target,
                   pool_closed, taken>>

\* faulty variant: the loop ends as soon as no result is waiting
LoopEndEarlyMut ==
    /\ mpc = "loop"
    /\ outq = <<>>
    /\ pending = <<>>
    /\ mpc' = "finalize_context"
    /\ UNCHANGED <<fin, wvars, pvars, main_i, pending, pair_ids, label_ids, z,
                   total_bytes_processed, builder_context, builder_target,
                   pool_closed, reports, taken>>

\* faulty variant: the pool is closed as soon as the loop ends
LoopEndMut ==
    /\ mpc = "loop"
    /\ dispatched = NumChunks
    /\ \A w \in Workers : task[w] = 0
    /\ outq = <<>>
    /\ pending = <<>>
    /\ mpc' = "finalize_context"
    /\ pool_closed' = TRUE
    /\ UNCHANGED <<fin, wvars, pvars, main_i, pending, pair_ids, label_ids, z,
                   total_bytes_processed, builder_context, builder_target,
                   reports, taken>>

\* the for statement ends
LoopEnd ==
    /\ mpc = "loop"
    /\ Drained
    /\ mpc' = "finalize_context"
    /\ UNCHANGED <<fin, wvars, pvars, main_i, pending, pair_ids, label_ids, z,
                   total_bytes_processed, builder_context, builder_target,
                   pool_closed, reports, taken>>

\* builder_context.finalize(context_idx_file)
FinalizeContext ==
    /\ mpc = "finalize_context"
    /\ builder_context' = finalize(builder_context)
    /\ mpc' = "finalize_target"
    /\ UNCHANGED <<fin, wvars, pvars, main_i, pending, pair_ids, label_ids, z,
                   total_bytes_processed, builder_target, pool_closed, reports, taken>>

\* builder_target.finalize(target_idx_file)
FinalizeTarget ==
    /\ mpc = "finalize_target"
    /\ builder_target' = finalize(builder_target)
    /\ mpc' = "close"
    /\ UNCHANGED <<fin, wvars, pvars, main_i, pending, pair_ids, label_ids, z,
                   total_bytes_processed, builder_context, pool_closed, reports, taken>>

\* pool.close()
PoolClose ==
    /\ mpc = "close"
    /\ pool_closed' = TRUE
    /\ mpc' = "done"
    /\ UNCHANGED <<fin, wvars, pvars, main_i, pending, pair_ids, label_ids, z,
                   total_bytes_processed, builder_context, builder_target,
                   reports, taken>>

Next ==
    \/ \E w \in Workers : Worker(w)
    \/ Take
    \/ MainRaise
    \/ AddContext
    \/ AddTarget
    \/ Log
    \/ LoopEnd
    \/ FinalizeContext
    \/ FinalizeTarget
    \/ PoolClose

Spec == Init /\ [][Next]_vars

(***************************************************************************)
(* The chunker alone: one worker maps encode over a one-line file.         *)
(***************************************************************************)
InitEncode == InitWith(EncodeFiles)
NextEncode ==
    \/ initializer(1)
    \/ GetTask(1)
    \/ EncodeBegin(1)
    \/ Iterate(1)
    \/ EncodeReturn(1)
SpecEncode == InitEncode /\ [][NextEncode]_vars


(***************************************************************************)
(* Properties.                                                             *)
(***************************************************************************)
Range(f) == {f[x] : x \in DOMAIN f}

\* the lines encode has returned a result for, with that result
Encoded ==
    UNION {{[line |-> Chunk(m.batch)[j], res |-> m.value[j]] : j \in 1..Len(m.value)} :
           m \in {q \in Range(outq) : q.success}}
    \cup UNION {{[line |-> Chunk(task[w])[j], res |-> outs[w][j]] : j \in 1..Len(outs[w])} :
                w \in Workers}

\* the pairs a worker holds or has returned
PairsMade ==
    UNION {Range(Zip(contexts[w], labels[w])) : w \in Workers}
    \cup UNION {Range(Zip(e.res.pair_ids.val, e.res.label_ids.val)) : e \in Encoded}

\* C1: no batch of a file of tokenizable lines fails, that is, neither
\* assertion of encode fails, and every pair encode appended has a context
\* and a label of more than 4 and fewer than 256 ids.
C1_PairLengthsInRange ==
    /\ \A m \in Range(outq) : m.success
    /\ \A pr \in PairsMade :
         /\ 4 < Len(pr.context) /\ Len(pr.context) < 256
         /\ 4 < Len(pr.label) /\ Len(pr.label) < 256

\* a pair of the longest context and the longest label was appended
C1_Witness ==
    \E pr \in PairsMade : Len(pr.context) = 255 /\ Len(pr.label) = 255

\* C7: the loop of encode terminates: an iteration that appends a pair moves
\* the offset i forward by tmp - 1 >= 31, and the number of iterations so far,
\* one per pair appended, stays within the length of doc_ids.
C7_LoopTerminates ==
    /\ [](\A w \in Workers :
            /\ Len(contexts[w]) <= Len(doc_ids[w])
            /\ 31 * Len(contexts[w]) <= i[w]
            /\ wpc[w] = "while" => i[w] < Len(doc_ids[w]))
    /\ [][\A w \in Workers :
            Len(contexts'[w]) = Len(contexts[w]) + 1 =>
                /\ tmp'[w] - 1 >= 31
                /\ i'[w] = i[w] + tmp'[w] - 1
                /\ i'[w] > i[w]]_vars

\* the loop ran more than once and has ended
C7_Witness ==
    \E w \in Workers : wpc[w] = "return" /\ Len(contexts[w]) >= 3


\* the line of the file a record was cut from: the ids of line p are 100 * p + j
Owner(item) == item[1] \div 100

Records == Range(builder_context.items) \cup Range(builder_target.items)

\* the lines of at most 5,000,000 characters and at least 12 ids
Accepted(line) == line.len <= 5000000 /\ Len(line.ids) >= 12

RECURSIVE BytesOfAccepted(_)
BytesOfAccepted(f) ==
    IF f = <<>> THEN 0
    ELSE (IF Accepted(Head(f)) THEN Head(f).len ELSE 0) + BytesOfAccepted(Tail(f))

IsNoOutput(res) ==
    res = [pair_ids |-> [none |-> TRUE, val |-> <<>>],
           label_ids |-> [none |-> TRUE, val |-> <<>>],
           bytes_processed |-> 0]

\* C2: whenever main is between two results, or past the loop, the two
\* builders hold the same number of records, and record k of the context
\* builder and record k of the target builder are the context and the label
\* of the k-th chunk pair of the results main took, in the order it took them.
C2_BuildersPaired ==
    mpc \notin {"add_context", "add_target"} =>
        /\ Len(builder_context.items) = Len(builder_target.items)
        /\ Len(builder_context.items) = Len(taken)
        /\ \A n \in 1..Len(taken) :
             /\ builder_context.items[n] = taken[n].context
             /\ builder_target.items[n] = taken[n].label

\* a run is over in which a result of the second batch was written first, and
\* some result had two pairs
C2_Witness ==
    /\ mpc = "done"
    /\ Len(builder_context.items) >= 3
    /\ Owner(builder_context.items[1]) > ChunkSize
    /\ \E n \in 1..(Len(taken) - 1) :
         Owner(taken[n].context) = Owner(taken[n + 1].context)

\* C3, as claimed: neither builder is finalized before the pool is closed.
C3_FinalizeAfterClose ==
    (builder_context.finalized > 0 \/ builder_target.finalized > 0) => pool_closed

\* C3, amended: the pool is closed only after both builders were finalized,
\* each once.
C3_CloseAfterFinalize ==
    pool_closed => builder_context.finalized = 1 /\ builder_target.finalized = 1

\* the pool is closed, after records were written
C3_Witness == pool_closed /\ Len(builder_context.items) > 0

\* C4: the context builder is never more than one record ahead of the target
\* builder, and never behind; it is ahead exactly when main is about to add
\* the label of the pair whose context it has just added.
C4_Interleaved ==
    LET d == Len(builder_context.items) - Len(builder_target.items)
    IN  /\ d \in {0, 1}
        /\ d = 1 <=> mpc = "add_target"
        /\ d = 1 =>
             /\ builder_context.items[Len(builder_context.items)] = pair_ids.val[z]
             /\ taken[Len(builder_context.items)] =
                    [context |-> pair_ids.val[z], label |-> label_ids.val[z]]

\* the context of the second pair of a result is written, its label is not yet
C4_Witness ==
    /\ mpc = "add_target"
    /\ z = 2
    /\ Len(builder_context.items) = Len(builder_target.items) + 1

\* C5: encode returns (None, None, 0) for a line of fewer than 12 ids and a
\* result with pairs for a line of exactly 12; no record of either builder was
\* cut from a line of fewer than 12 ids; and when the run is over the bytes
\* counted are those of the lines that were not rejected, each line of 12 ids
\* among them having a record.
C5_ShortLineRejected ==
    /\ \A e \in Encoded :
         e.line.len <= 5000000 =>
             /\ Len(e.line.ids) < 12 => IsNoOutput(e.res)
             /\ Len(e.line.ids) = 12 =>
                    ~e.res.pair_ids.none /\ ~e.res.label_ids.none
                    /\ e.res.bytes_processed = e.line.len
    /\ \A item \in Records : Len(fin[Owner(item)].ids) >= 12
    /\ mpc = "done" =>
         /\ total_bytes_processed = BytesOfAccepted(fin)
         /\ \A p \in 1..Len(fin) :
              fin[p].len <= 5000000 /\ Len(fin[p].ids) = 12 =>
                  \E item \in Range(builder_context.items) : Owner(item) = p

\* a run is over on a file with a line of 11 ids and a line of 12
C5_Witness ==
    /\ mpc = "done"
    /\ \E p \in 1..Len(fin) : fin[p].len <= 5000000 /\ Len(fin[p].ids) = 11
    /\ \E p \in 1..Len(fin) : fin[p].len <= 5000000 /\ Len(fin[p].ids) = 12
    /\ total_bytes_processed > 0

\* C6: encode returns (None, None, 0) for a line of more than 5,000,000
\* characters, without calling the tokenizer (a batch fails only on a line of
\* at most 5,000,000 characters), and a result with pairs for a line of
\* exactly 5,000,000; no record of either builder was cut from a longer line;
\* the bytes counted never exceed, and at the end of the run are, those of the
\* lines that were not rejected.
C6_OversizedLineSkipped ==
    /\ \A e \in Encoded :
         /\ e.line.len > 5000000 => IsNoOutput(e.res)
         /\ e.line.len = 5000000 /\ Len(e.line.ids) >= 12 =>
                ~e.res.pair_ids.none /\ ~e.res.label_ids.none
                /\ e.res.bytes_processed = 5000000
    /\ \A m \in Range(outq) :
         ~m.success => \E line \in Range(Chunk(m.batch)) :
                          line.raises /\ line.len <= 5000000
    /\ \A item \in Records : fin[Owner(item)].len <= 5000000
    /\ total_bytes_processed <= BytesOfAccepted(fin)
    /\ mpc = "done" =>
         /\ total_bytes_processed = BytesOfAccepted(fin)
         /\ \A p \in 1..Len(fin) :
              fin[p].len = 5000000 /\ Len(fin[p].ids) >= 12 =>
                  \E item \in Range(builder_context.items) : Owner(item) = p

\* a run is over on a file with a line of 5,000,001 characters and one of
\* 5,000,000
C6_Witness ==
    /\ mpc = "done"
    /\ \E p \in 1..Len(fin) : fin[p].len = 5000001 /\ fin[p].raises
    /\ \E p \in 1..Len(fin) : fin[p].len = 5000000
    /\ total_bytes_processed >= 5000000

\* C8: main takes the failure of a batch off the result stream only by
\* ending; once it has ended so, it writes no record, finalizes no builder
\* and does not close the pool; and a run that gets past the loop has taken a
\* result for every line of the file: no batch failed.
C8_WorkerErrorIsFatal ==
    /\ [](mpc = "aborted" =>
            /\ builder_context.finalized = 0
            /\ builder_target.finalized = 0
            /\ ~pool_closed)
    /\ [](mpc \in {"finalize_context", "finalize_target", "close", "done"} =>
            main_i = Len(fin))
    /\ [][mpc = "aborted" => UNCHANGED mvars]_vars
    /\ [][(mpc = "loop" /\ pending = <<>> /\ outq # <<>> /\ ~Head(outq).success) =>
            (mpc' = "aborted" \/ (Len(outq') >= Len(outq) /\ UNCHANGED mvars))]_vars
    /\ [][\A w \in Workers :
            task'[w] # task[w] /\ task'[w] # 0 => task'[w] = dispatched + 1]_vars

\* main has ended on the failure of a batch, after it wrote records
C8_Witness ==
    /\ mpc = "aborted"
    /\ Len(builder_context.items) > 0
    /\ dispatched = NumChunks

\* C9, as claimed: between two results main has printed one progress report
\* for each multiple of log_interval the count of results has reached.
C9_ReportEveryInterval ==
    mpc = "loop" => reports = main_i \div log_interval

NonDecreasing(a) == \A m, n \in 1..Len(a) : m <= n => a[m] <= a[n]
LastOrZero(a) == IF a = <<>> THEN 0 ELSE a[Len(a)]

\* C10, as claimed: when the run is over the document-boundary array of each
\* dataset is non-decreasing and ends with the number of records of the
\* dataset.
C10_DocBoundaries ==
    mpc = "done" =>
        \A b \in {builder_context, builder_target} :
            /\ b.finalized = 1
            /\ NonDecreasing(b.doc_idx)
            /\ LastOrZero(b.doc_idx) = Len(b.items)


\* the share of the raw draws that give segment size t, as draws out of all
DrawsFor(t) == Cardinality({r \in RawDraws : SegSize(r) = t})

\* C11, as claimed: of the equally likely raw draws, exactly 4/8 give segment
\* size 32, 2/8 give 64, 1/8 give 128 and 1/8 give 256, whatever the worker
\* is doing.
C11_SegSizeShares ==
    \A w \in Workers :
        wpc[w] \in {"start", "idle", "encode", "while", "return"} =>
            /\ 8 * DrawsFor(32) = 4 * Cardinality(RawDraws)
            /\ 8 * DrawsFor(64) = 2 * Cardinality(RawDraws)
            /\ 8 * DrawsFor(128) = 1 * Cardinality(RawDraws)
            /\ 8 * DrawsFor(256) = 1 * Cardinality(RawDraws)


\* C12: for every line that is not rejected, with N the length of doc_ids
\* after the sentinel is appended, encode returns at least one pair, and in
\* every pair it returns the context and the label have more than 4 and fewer
\* than 256 ids each and no more than N together.
C12_AtLeastOnePair ==
    \A e \in Encoded :
        e.line.len <= 5000000 /\ Len(e.line.ids) >= 12 =>
            /\ ~e.res.pair_ids.none /\ ~e.res.label_ids.none
            /\ Len(e.res.pair_ids.val) >= 1
            /\ Len(e.res.label_ids.val) = Len(e.res.pair_ids.val)
            /\ \A n \in 1..Len(e.res.pair_ids.val) :
                 LET c == Len(e.res.pair_ids.val[n])
                     l == Len(e.res.label_ids.val[n])
                 IN  /\ 4 < c /\ c < 256
                     /\ 4 < l /\ l < 256
                     /\ c + l <= Len(e.line.ids) + 1

\* encode has returned for a line of 39 ids, doc_ids of 40 with the sentinel
C12_Witness ==
    \E e \in Encoded :
        /\ Len(e.line.ids) = 39
        /\ ~e.res.pair_ids.none
        /\ Len(e.res.pair_ids.val) >= 1


\* C13: a worker constructs its tokenizer once, in the initializer, before it
\* takes its first batch: a worker that has started has constructed exactly
\* one, a worker that has not has constructed none, and no later step of the
\* worker, encode among them, constructs another.
C13_OneTokenizerPerWorker ==
    /\ [](\A w \in Workers :
            /\ wpc[w] = "start" => tokenizer[w] = 0 /\ task[w] = 0
            /\ wpc[w] # "start" => tokenizer[w] = 1
            /\ task[w] # 0 => tokenizer[w] = 1)
    /\ [][\A w \in Workers :
            tokenizer'[w] # tokenizer[w] =>
                wpc[w] = "start" /\ tokenizer[w] = 0 /\ tokenizer'[w] = 1]_vars

\* a worker is on the third line of its batch, or later
C13_Witness ==
    \E w \in Workers : tokenizer[w] = 1 /\ wpc[w] = "while" /\ Len(outs[w]) >= 2


\* a step in which worker w appends a pair, the pair, and the piece it was
\* cut from: the ids of doc_ids from offset i, tmp + 254 of them or as many as
\* are left
Appends(w) == Len(contexts'[w]) = Len(contexts[w]) + 1
NewContext(w) == contexts'[w][Len(contexts'[w])]
NewLabel(w) == labels'[w][Len(labels'[w])]
CutFrom(w) ==
    SubSeq(doc_ids[w], i[w] + 1,
           i[w] + Min(tmp'[w] + 254, Len(doc_ids[w]) - i[w]))

\* the buckets of the length of the piece, and the fixed size of each: of
\* the label in the odd buckets, of the context in the even ones
UpperBounds == <<16, 24, 32, 48, 64, 96, 128, 192, 256, 384, 512>>
FixedSizes == <<7, 7, 15, 15, 31, 31, 63, 63, 127, 127, 255>>
Bucket(n) ==
    CHOOSE b \in 1..Len(UpperBounds) :
        n < UpperBounds[b] /\ \A a \in 1..(b - 1) : n >= UpperBounds[a]

\* the split of a piece into c and l follows the table; larger(fixed, other)
\* is what is said of the two sizes in the odd and in the even buckets
FollowsTable(piece, t, c, l, largerOdd(_, _), largerEven(_, _)) ==
    IF Len(piece) - (t - 1) >= 63
    THEN c = SubSeq(piece, 1, t - 1) /\ l = SubSeq(piece, t, Len(piece))
    ELSE Len(piece) < 512 =>
           LET b == Bucket(Len(piece))
           IN  /\ c \o l = piece
               /\ b % 2 = 1 => Len(l) = FixedSizes[b] /\ largerOdd(Len(l), Len(c))
               /\ b % 2 = 0 => Len(c) = FixedSizes[b] /\ largerEven(Len(c), Len(l))

AtLeast(fixed, other) == fixed >= other
AtMostOneLess(fixed, other) == fixed + 1 >= other
Less(fixed, other) == fixed < other

\* C14, as claimed: a pair whose tentative label has fewer than 63 ids is
\* split by the bucket of the length of the piece, a fixed-size label in the
\* odd buckets and a fixed-size context in the even ones, the fixed-size part
\* being the larger part in every bucket; a tentative label of 63 ids or more
\* is kept.
C14_FixedPartLarger ==
    [][\A w \in Workers :
         Appends(w) =>
             FollowsTable(CutFrom(w), tmp'[w], NewContext(w), NewLabel(w),
                          AtLeast, AtLeast)]_vars

\* C14, amended: the same split, but the fixed-size part is not the larger in
\* every bucket: a fixed-size context (even buckets) is shorter than the
\* label, and a fixed-size label (odd buckets) is at most one id shorter than
\* the context.
C14_OverrideTable ==
    [][\A w \in Workers :
         Appends(w) =>
             FollowsTable(CutFrom(w), tmp'[w], NewContext(w), NewLabel(w),
                          AtMostOneLess, Less)]_vars

\* a piece of 16 ids, in the second bucket, was split into a context of 7 and
\* a label of 9
C14_Witness ==
    \E w \in Workers :
        /\ Len(doc_ids[w]) = 16
        /\ Len(contexts[w]) = 1
        /\ Len(contexts[w][1]) = 7 /\ Len(labels[w][1]) = 9

\* the offset and the end of the n-th pair worker w holds, in a file whose
\* ids are their own positions: the id at offset o is o + 1
StartOf(w, n) == contexts[w][n][1] - 1
EndOf(w, n) == StartOf(w, n) + Len(contexts[w][n]) + Len(labels[w][n])

\* C15: the pairs of one call of encode are cut at strictly increasing
\* offsets: the first at offset 0, each later one tmp - 1 after the one
\* before it, tmp being 32, 64, 128 or 256, and no later than where the one
\* before it ended.
C15_OffsetsIncrease ==
    /\ [](\A w \in Workers :
            /\ Len(contexts[w]) >= 1 => StartOf(w, 1) = 0
            /\ \A n \in 1..(Len(contexts[w]) - 1) :
                 /\ StartOf(w, n) < StartOf(w, n + 1)
                 /\ StartOf(w, n + 1) - StartOf(w, n) \in {31, 63, 127, 255}
                 /\ StartOf(w, n + 1) <= EndOf(w, n))
    /\ [][\A w \in Workers :
            Appends(w) =>
                /\ NewContext(w)[1] = doc_ids[w][i[w] + 1]
                /\ Len(contexts[w]) = 0 => i[w] = 0
                /\ i'[w] = i[w] + tmp'[w] - 1
                /\ wpc'[w] = "while" => i'[w] <= i[w] + Len(CutFrom(w))]_vars

\* encode holds three pairs or more, the second cut 31 ids after the first and
\* the third 255 ids after the second, each before the end of the one before
C15_Witness ==
    \E w \in Workers :
        /\ Len(contexts[w]) >= 3
        /\ StartOf(w, 2) = 31 /\ StartOf(w, 2) < EndOf(w, 1)
        /\ StartOf(w, 3) = 31 + 255 /\ StartOf(w, 3) < EndOf(w, 2)


\* C16: no builder is finalized more than once, and a run that ends normally
\* has finalized each once; a builder is finalized only when the result
\* stream is drained, main having taken a result for every line; and once a
\* builder is finalized its records no longer change: no add_item follows.
C16_FinalizeOnceAtEnd ==
    /\ [](\A b \in {builder_context, builder_target} :
            /\ b.finalized <= 1
            /\ mpc = "done" => b.finalized = 1
            /\ b.finalized >= 1 =>
                 /\ Drained
                 /\ main_i = Len(fin)
                 /\ mpc \in {"finalize_target", "close", "done"})
    /\ [][/\ builder_context.finalized >= 1 =>
                builder_context'.items = builder_context.items
          /\ builder_target.finalized >= 1 =>
                builder_target'.items = builder_target.items
          /\ builder_context'.finalized # builder_context.finalized =>
                Len(builder_context.items) = Len(taken)
          /\ builder_target'.finalized # builder_target.finalized =>
                Len(builder_target.items) = Len(taken)]_vars

\* a run over two batches has ended, with records in both builders
C16_Witness ==
    /\ mpc = "done"
    /\ NumChunks = 2
    /\ builder_context.finalized = 1 /\ builder_target.finalized = 1
    /\ Len(builder_context.items) >= 2 /\ Len(builder_target.items) >= 2


\* C17: every pair encode appends is the piece cut in two: its context
\* followed by its label is the run of doc_ids that starts at offset i and has
\* min(tmp + 254, len(doc_ids) - i) ids, each once and in order.
C17_PairIsThePiece ==
    [][\A w \in Workers :
         Appends(w) =>
             /\ NewContext(w) \o NewLabel(w) = CutFrom(w)
             /\ Len(NewContext(w)) + Len(NewLabel(w)) =
                    Min(tmp'[w] + 254, Len(doc_ids[w]) - i[w])
             /\ \A n \in 1..(Len(NewContext(w)) + Len(NewLabel(w))) :
                  (NewContext(w) \o NewLabel(w))[n] = doc_ids[w][i[w] + n]]_vars

\* encode holds a pair of a whole window of 32 + 254 ids, split as cut, and
\* after it a pair split by the table
C17_Witness ==
    \E w \in Workers :
        /\ Len(contexts[w]) >= 2
        /\ Len(contexts[w][1]) = 31 /\ Len(labels[w][1]) = 255
        /\ \E n \in 2..Len(contexts[w]) :
             Len(contexts[w][n]) = 15 /\ Len(labels[w][n]) < 63

\* C18: when the loop of encode is over, by its test or by the early stop,
\* the pairs it appended cover doc_ids from the first id to the sentinel: the
\* first starts at offset 0, each later one starts within or right after the
\* one before it, each ends at the id of doc_ids its extent says, and the last
\* one ends with the sentinel, the last id of doc_ids.
C18_NoTokenLost ==
    \A w \in Workers :
        wpc[w] = "return" =>
            LET m == Len(contexts[w])
            IN  /\ m >= 1
                /\ Len(labels[w]) = m
                /\ StartOf(w, 1) = 0
                /\ \A n \in 1..(m - 1) : StartOf(w, n + 1) <= EndOf(w, n)
                /\ \A n \in 1..m :
                     /\ EndOf(w, n) <= Len(doc_ids[w])
                     /\ labels[w][n][Len(labels[w][n])] = doc_ids[w][EndOf(w, n)]
                /\ EndOf(w, m) = Len(doc_ids[w])
                /\ labels[w][m][Len(labels[w][m])] = 0
                /\ doc_ids[w][Len(doc_ids[w])] = 0

\* the loop has ended by the early stop, on a tail of fewer than 12 ids, after
\* two pairs or more
C18_Witness ==
    \E w \in Workers :
        /\ wpc[w] = "return"
        /\ i[w] < Len(doc_ids[w])
        /\ Len(doc_ids[w]) - i[w] < 12
        /\ Len(contexts[w]) >= 2

====
